---- MODULE Spec2Model ----
(***************************************************************************)
(* Model of server/ingest.py: the ingestion pipeline that loads PDF and    *)
(* web documents, splits them into chunks, gives every chunk a positional  *)
(* id and a sha256 of its text, and adds the chunks whose sha256 is not    *)
(* yet persisted to the Chroma store at CHROMA_PATH.                       *)
(*                                                                         *)
(* A text is modelled by the sequence of windows the text splitter cuts it *)
(* into, so a document's page_content is a sequence over Texts and a       *)
(* chunk's page_content is one element of Texts.  The Chroma collection is *)
(* a function from chunk ids to the chunk stored under that id.  Only the  *)
(* exceptions the code catches are modelled; an exception it does not      *)
(* catch ends the process and is not a step of the model.                  *)
(***************************************************************************)
EXTENDS Integers, Sequences, FiniteSets, TLC

\* ------------------------------------------------------------------ bounds

MaxSites == 2       \* lines of websites.txt (Spec)
MaxWindows == 2     \* windows the splitter cuts one document into
MaxPages == 1       \* pages of the PDF in DATA_PATH
MaxRuns == 2        \* ingest invocations in one behaviour of Spec
MaxChanges == 2     \* changes of the document set in one behaviour of SpecRerun
MaxDocs == 2        \* documents of a document set (SpecRerun)
MaxLoaded == 3      \* web documents loaded at once (SpecIds)

Texts == {"t1", "t2"}
URLS == {"u1", "u2"}
PdfFile == "data/a.pdf"

SeqsUpTo(S, n) == UNION {[1..k -> S] : k \in 0..n}

\* What soup.get_text returns for a page: the windows it will be split into.
PageTexts == SeqsUpTo(Texts, MaxWindows)

\* ----------------------------------------------------------- pure functions

\* requests.get as seen by polite_get: the status and the page.
Responses == [status : {200, 500}, text : PageTexts]

\* resp.raise_for_status()
polite_get_raises(resp) == resp.status >= 400

\* scrape_website: (text, title), and ("", url) on any exception.
scrape_website(url, resp) ==
    IF polite_get_raises(resp)
    THEN [text |-> <<>>, title |-> url]
    ELSE [text |-> resp.text, title |-> "title"]

Document(source, page, text) == [source |-> source, page |-> page, page_content |-> text]

\* The Document build_web_documents creates for a scraped page.
WebDocument(url, text) == Document(url, 0, text)

\* build_web_documents without "if not text: continue".
build_web_documents_step_unchecked(docs, url, text) == Append(docs, WebDocument(url, text))

\* One iteration of the loop of build_web_documents: a page with no text is skipped.
build_web_documents_step(docs, url, text) ==
    IF text = <<>> THEN docs ELSE Append(docs, WebDocument(url, text))

\* The chunks the splitter makes of one document: its windows, with the metadata copied.
SplitOne(doc) ==
    [k \in 1..Len(doc.page_content) |->
        [source |-> doc.source, page |-> doc.page, page_content |-> doc.page_content[k]]]

RECURSIVE split_documents(_)
split_documents(documents) ==
    IF documents = <<>> THEN <<>>
    ELSE SplitOne(Head(documents)) \o split_documents(Tail(documents))

sha256_text(text) == <<"sha256", text>>

\* f"{source}:{page}"
PageId(chunk) == <<chunk.source, chunk.page>>

\* current_chunk_index for the next chunk, from the cursor left by the previous one.
NextChunkIndex(current_page_id, last_page_id, current_chunk_index) ==
    IF current_page_id = last_page_id THEN current_chunk_index + 1 ELSE 0

\* f"{current_page_id}:{current_chunk_index}"
ChunkId(page_id, index) == <<page_id[1], page_id[2], index>>

RECURSIVE ChunkIdLoop(_, _, _)
ChunkIdLoop(chunks, last_page_id, current_chunk_index) ==
    IF chunks = <<>> THEN <<>>
    ELSE LET chunk == Head(chunks)
             current_page_id == PageId(chunk)
             index == NextChunkIndex(current_page_id, last_page_id, current_chunk_index)
             done == [source |-> chunk.source, page |-> chunk.page,
                      page_content |-> chunk.page_content,
                      id |-> ChunkId(current_page_id, index),
                      sha256 |-> sha256_text(chunk.page_content)]
         IN <<done>> \o ChunkIdLoop(Tail(chunks), current_page_id, index)

\* last_page_id = None is modelled by <<>>, which is no page id.
calculate_chunk_ids(chunks) == ChunkIdLoop(chunks, <<>>, 0)

\* ------------------------------------------------------------ the store

EmptyStore == <<>>

\* What db.get gives add_to_chroma: the metadatas, the ids alone (the first get
\* raised and the second, include=[], did not), or nothing (both raised).
GetOutcomes == {"metadatas", "ids_only", "error"}

StoredHashes(db) == {db[id].sha256 : id \in DOMAIN db}

\* existing_hashes filled with the stored ids, not the stored sha256.
ExistingIds(db, outcome) == IF outcome = "metadatas" THEN DOMAIN db ELSE {}

\* existing_hashes as add_to_chroma builds it from existing_items.
ExistingHashes(db, outcome) == IF outcome = "metadatas" THEN StoredHashes(db) ELSE {}

\* "in" where the code has "not in".
IsNewInverted(chunk, existing_hashes) == chunk.sha256 \in existing_hashes

IsNew(chunk, existing_hashes) == chunk.sha256 \notin existing_hashes

\* new_chunks without the filter.
NewChunksUnfiltered(chunks, existing_hashes) == chunks

\* new_chunks = [c for c in chunks if c.metadata.get("sha256") not in existing_hashes]
NewChunks(chunks, existing_hashes) ==
    SelectSeq(chunks, LAMBDA c : IsNew(c, existing_hashes))

\* A write that leaves a row whose id is taken as it is (insert, not upsert).
InsertOnly(db, chunk) ==
    [id \in (DOMAIN db) \cup {chunk.id} |-> IF id \in DOMAIN db THEN db[id] ELSE chunk]

\* The collection after one chunk is written under its id.
Upsert(db, chunk) ==
    [id \in (DOMAIN db) \cup {chunk.id} |-> IF id = chunk.id THEN chunk ELSE db[id]]

\* db.add_documents(new_chunks, ids=new_ids): the chunks are written in order.
RECURSIVE add_documents(_, _)
add_documents(db, new_chunks) ==
    IF new_chunks = <<>> THEN db
    ELSE add_documents(Upsert(db, Head(new_chunks)), Tail(new_chunks))

\* add_to_chroma: nothing is written when there is no new chunk.
add_to_chroma(db, chunks, outcome) ==
    LET new == NewChunks(chunks, ExistingHashes(db, outcome))
    IN IF new = <<>> THEN db ELSE add_documents(db, new)

\* clear_database that removes nothing.
clear_database_skipped(db, exists) == db

\* clear_database: shutil.rmtree(CHROMA_PATH) when the directory exists.
clear_database(db, exists) == IF exists THEN EmptyStore ELSE db

\* -------------------------------------------------------------- the state

VARIABLES
    pc,           \* where the ingest run stands; "idle" between runs
    reset,        \* the reset argument of the run
    db,           \* the Chroma collection persisted at CHROMA_PATH
    db_exists,    \* os.path.exists(CHROMA_PATH)
    removed,      \* clear_database of this run removed the directory (and printed so)
    pdf_docs,     \* ingest: pdf_docs
    websites,     \* ingest: websites, the lines read_websites returned
    scraped,      \* build_web_documents: what scrape_website returned per url so far
    web_docs,     \* build_web_documents: docs
    all_docs,     \* ingest: all_docs
    chunks,       \* ingest: chunks, with id and sha256 once calculate_chunk_ids ran
    new_chunks,   \* add_to_chroma: new_chunks
    get_outcome,  \* add_to_chroma: how db.get ended
    runs,         \* ingest invocations so far (Spec)
    documents,    \* SpecRerun: what the loaders return while the sources are unchanged
    ingested,     \* SpecRerun: a run over the present documents has been made
    reingest,     \* SpecRerun: the run follows a run over the same documents
    added,        \* SpecRerun: position in documents of a document added to an ingested set
    changes       \* SpecRerun: changes of the documents so far

locals == <<pdf_docs, websites, scraped, web_docs, all_docs, chunks, new_chunks, get_outcome>>
rerun_vars == <<documents, ingested, reingest, added, changes>>
vars == <<pc, reset, db, db_exists, removed, locals, runs, rerun_vars>>

NoLocals ==
    /\ pdf_docs = <<>> /\ websites = <<>> /\ scraped = <<>> /\ web_docs = <<>>
    /\ all_docs = <<>> /\ chunks = <<>> /\ new_chunks = <<>> /\ get_outcome = "none"

NoRerun ==
    documents = <<>> /\ ingested = FALSE /\ reingest = FALSE /\ added = 0 /\ changes = 0

Init ==
    /\ pc = "idle" /\ reset = FALSE
    /\ db = EmptyStore /\ db_exists = FALSE /\ removed = FALSE
    /\ NoLocals
    /\ runs = 0
    /\ NoRerun

\* What PyPDFDirectoryLoader(DATA_PATH).load() returns: one Document per page.
PdfLoads ==
    UNION {{[p \in 1..n |-> Document(PdfFile, p - 1, <<f[p]>>)] : f \in [1..n -> Texts]}
           : n \in 0..MaxPages}

\* What read_websites returns.
WebsiteFiles == SeqsUpTo(URLS, MaxSites)

\* ------------------------------------------------------- the steps of ingest

\* ingest(reset) is called.
Ingest(r) ==
    /\ pc = "idle" /\ runs < MaxRuns
    /\ reset' = r
    /\ runs' = runs + 1
    /\ pc' = IF r THEN "clear_database" ELSE "load_pdf_documents"
    /\ UNCHANGED <<db, db_exists, removed, locals, rerun_vars>>

\* if reset: clear_database()
ClearDatabase ==
    /\ pc = "clear_database"
    /\ db' = clear_database(db, db_exists)
    /\ removed' = db_exists
    /\ db_exists' = FALSE
    /\ pc' = "load_pdf_documents"
    /\ UNCHANGED <<reset, locals, runs, rerun_vars>>

\* load_pdf_documents: no DATA_PATH, a loader that raises, or the loader's documents.
LoadPdfDocuments ==
    /\ pc = "load_pdf_documents"
    /\ \/ pdf_docs' = <<>>
       \/ \E docs \in PdfLoads : pdf_docs' = docs
    /\ pc' = "read_websites"
    /\ UNCHANGED <<reset, db, db_exists, removed, websites, scraped, web_docs,
                   all_docs, chunks, new_chunks, get_outcome, runs, rerun_vars>>

\* read_websites: [] when the file is missing, else its lines.
ReadWebsites ==
    /\ pc = "read_websites"
    /\ \E lines \in WebsiteFiles : websites' = lines
    /\ pc' = "build_web_documents"
    /\ UNCHANGED <<reset, db, db_exists, removed, pdf_docs, scraped, web_docs,
                   all_docs, chunks, new_chunks, get_outcome, runs, rerun_vars>>

\* One iteration of the loop of build_web_documents over websites.
ScrapeWebsite ==
    /\ pc = "build_web_documents"
    /\ Len(scraped) < Len(websites)
    /\ \E resp \in Responses :
          LET url == websites[Len(scraped) + 1]
              got == scrape_website(url, resp)
          IN /\ scraped' = Append(scraped, got)
             /\ web_docs' = build_web_documents_step(web_docs, url, got.text)
    /\ UNCHANGED <<pc, reset, db, db_exists, removed, pdf_docs, websites, all_docs,
                   chunks, new_chunks, get_outcome, runs, rerun_vars>>

\* all_docs = pdf_docs + web_docs, and the early return when there is none.
CollectDocuments ==
    /\ pc = "build_web_documents"
    /\ Len(scraped) = Len(websites)
    /\ all_docs' = pdf_docs \o web_docs
    /\ pc' = IF all_docs' = <<>> THEN "return" ELSE "split_documents"
    /\ UNCHANGED <<reset, db, db_exists, removed, pdf_docs, websites, scraped,
                   web_docs, chunks, new_chunks, get_outcome, runs, rerun_vars>>

\* chunks = split_documents(all_docs)
SplitDocuments ==
    /\ pc = "split_documents"
    /\ chunks' = split_documents(all_docs)
    /\ pc' = "calculate_chunk_ids"
    /\ UNCHANGED <<reset, db, db_exists, removed, pdf_docs, websites, scraped,
                   web_docs, all_docs, new_chunks, get_outcome, runs, rerun_vars>>

\* chunks = calculate_chunk_ids(chunks)
CalculateChunkIds ==
    /\ pc = "calculate_chunk_ids"
    /\ chunks' = calculate_chunk_ids(chunks)
    /\ pc' = "add_to_chroma"
    /\ UNCHANGED <<reset, db, db_exists, removed, pdf_docs, websites, scraped,
                   web_docs, all_docs, new_chunks, get_outcome, runs, rerun_vars>>

\* add_to_chroma(chunks): opening the collection creates CHROMA_PATH.
AddToChroma ==
    /\ pc = "add_to_chroma"
    /\ \E outcome \in GetOutcomes :
          /\ get_outcome' = outcome
          /\ new_chunks' = NewChunks(chunks, ExistingHashes(db, outcome))
          /\ db' = add_to_chroma(db, chunks, outcome)
    /\ db_exists' = TRUE
    /\ pc' = "return"
    /\ UNCHANGED <<reset, removed, pdf_docs, websites, scraped, web_docs, all_docs,
                   chunks, runs, rerun_vars>>

\* ingest returns: its locals are gone.
Return ==
    /\ pc = "return"
    /\ pc' = "idle"
    /\ pdf_docs' = <<>> /\ websites' = <<>> /\ scraped' = <<>> /\ web_docs' = <<>>
    /\ all_docs' = <<>> /\ chunks' = <<>> /\ new_chunks' = <<>> /\ get_outcome' = "none"
    /\ removed' = FALSE
    /\ UNCHANGED <<reset, db, db_exists, runs, rerun_vars>>

Next ==
    \/ \E r \in BOOLEAN : Ingest(r)
    \/ ClearDatabase
    \/ LoadPdfDocuments
    \/ ReadWebsites
    \/ ScrapeWebsite
    \/ CollectDocuments
    \/ SplitDocuments
    \/ CalculateChunkIds
    \/ AddToChroma
    \/ Return

Spec == Init /\ [][Next]_vars

\* ---------------------------------------- ingest over a kept document set

\* The Documents the scraper can make of one page.
WebDocuments == {WebDocument(url, text) : url \in URLS, text \in PageTexts \ {<<>>}}

\* While the sources are unchanged a url gives the same page each time it is scraped.
SamePagePerUrl(docs) ==
    \A i, j \in 1..Len(docs) :
        docs[i].source = docs[j].source => docs[i].page_content = docs[j].page_content

\* What the loaders can return together, PDF documents left out.
DocumentSets == {docs \in SeqsUpTo(WebDocuments, MaxDocs) : SamePagePerUrl(docs)}

InsertAt(seq, k, x) == SubSeq(seq, 1, k - 1) \o <<x>> \o SubSeq(seq, k, Len(seq))

\* The sources change between two runs: other files, other pages.
ChangeDocuments ==
    /\ pc = "idle" /\ changes < MaxChanges
    /\ \E docs \in DocumentSets \ {documents} : documents' = docs
    /\ ingested' = FALSE /\ added' = 0
    /\ changes' = changes + 1
    /\ UNCHANGED <<pc, reset, db, db_exists, removed, locals, runs, reingest>>

\* One document is added to a document set that has been ingested.
AddDocument ==
    /\ pc = "idle" /\ added = 0
    /\ ingested /\ documents # <<>> /\ Len(documents) < MaxDocs
    /\ \E doc \in WebDocuments, k \in 1..(Len(documents) + 1) :
          /\ SamePagePerUrl(InsertAt(documents, k, doc))
          /\ documents' = InsertAt(documents, k, doc)
          /\ added' = k
    /\ ingested' = FALSE
    /\ changes' = changes
    /\ UNCHANGED <<pc, reset, db, db_exists, removed, locals, runs, reingest>>

\* ingest(reset=False) up to all_docs, the loaders returning the documents.
IngestDocuments ==
    /\ pc = "idle"
    /\ reset' = FALSE
    /\ all_docs' = documents
    /\ pc' = IF all_docs' = <<>> THEN "return" ELSE "split_documents"
    /\ reingest' = ingested
    /\ ingested' = TRUE
    /\ UNCHANGED <<db, db_exists, removed, pdf_docs, websites, scraped, web_docs,
                   chunks, new_chunks, get_outcome, runs, documents, added, changes>>

RunStep ==
    \/ IngestDocuments
    \/ SplitDocuments
    \/ CalculateChunkIds
    \/ AddToChroma
    \/ Return

NextRerun ==
    \/ ChangeDocuments
    \/ AddDocument
    \/ RunStep

\* Ingestion is run again and again, and a run that started goes on.
SpecRerun == Init /\ [][NextRerun]_vars /\ WF_vars(RunStep)

\* --------------------------------------------- calculate_chunk_ids alone

\* What ingest can hold in all_docs: the PDF pages, then the scraped pages.
LoadedDocuments == {pdf \o web : pdf \in PdfLoads, web \in SeqsUpTo(WebDocuments, MaxLoaded)}

InitIds ==
    /\ pc = "split_documents" /\ reset = FALSE
    /\ db = EmptyStore /\ db_exists = FALSE /\ removed = FALSE
    /\ pdf_docs = <<>> /\ websites = <<>> /\ scraped = <<>> /\ web_docs = <<>>
    /\ all_docs \in LoadedDocuments \ {<<>>}
    /\ chunks = <<>> /\ new_chunks = <<>> /\ get_outcome = "none"
    /\ runs = 0
    /\ NoRerun

NextIds == SplitDocuments \/ CalculateChunkIds

SpecIds == InitIds /\ [][NextIds]_vars

\* ================================================================ claims

Indices(seq) == 1..Len(seq)
Range(seq) == {seq[i] : i \in Indices(seq)}

\* The subsequence of seq at the positions in I.
Pick(seq, I) ==
    LET at == SelectSeq([i \in Indices(seq) |-> i], LAMBDA i : i \in I)
    IN [j \in Indices(at) |-> seq[at[j]]]

RECURSIVE SumOver(_, _)
SumOver(f, S) ==
    IF S = {} THEN 0 ELSE LET x == CHOOSE y \in S : TRUE IN f[x] + SumOver(f, S \ {x})

LoopRunning == pc = "build_web_documents"
AfterLoop == pc \in {"split_documents", "calculate_chunk_ids", "add_to_chroma", "return"}
Identified == pc \in {"add_to_chroma", "return"}

\* ---- C3 (SpecIds)
\* C3: in the chunks calculate_chunk_ids returns, the chunkIndex of a chunk is the
\* number of earlier chunks of the batch with its (source, page), so the indices of
\* one (source, page) are 0, 1, 2, ... without gap or repeat, and no two chunks of
\* the batch have the same id.
C3_ContiguousIndexRuns ==
    pc = "add_to_chroma" =>
        /\ \A i \in Indices(chunks) :
              chunks[i].id[3] =
                  Cardinality({j \in 1..(i - 1) : PageId(chunks[j]) = PageId(chunks[i])})
        /\ \A i, j \in Indices(chunks) : i # j => chunks[i].id # chunks[j].id

\* ---- C7 (Spec)
\* C7: in a run with reset the store is empty from clear_database until
\* add_to_chroma, and when the run returns every row of the store is a chunk of
\* this run's batch under its id (no row at all when no document was found).
C7_ResetSemantics ==
    (reset /\ pc \notin {"idle", "clear_database"}) =>
        IF pc = "return"
        THEN \A id \in DOMAIN db : \E i \in Indices(chunks) :
                 chunks[i].id = id /\ db[id] = chunks[i]
        ELSE db = EmptyStore

\* A run with reset removed an existing store directory and returns with rows stored.
C7_Witness ==
    pc = "return" /\ reset /\ removed /\ db # EmptyStore

\* ---- C8 (Spec)
\* The positions of websites whose scrape returned a text.
Kept == {k \in Indices(scraped) : scraped[k].text # <<>>}
ScrapeFailed(k) == scraped[k].text = <<>> /\ scraped[k].title = websites[k]
WindowsOf(url) ==
    SumOver([k \in Indices(scraped) |-> Len(scraped[k].text)],
            {k \in Indices(scraped) : websites[k] = url})

\* C8: the web documents are those of the urls whose scrape returned a text, in the
\* order of websites.txt, a failed url giving none; after a failure the loop goes on
\* to the last url; and the batch holds, per url, as many chunks as the scrapes that
\* succeeded for it gave windows.
C8_ScrapeFailureIsolated ==
    /\ (LoopRunning \/ AfterLoop) /\ websites # <<>> =>
          web_docs = [j \in 1..Cardinality(Kept) |->
                         LET k == Pick([i \in Indices(scraped) |-> i], Kept)[j]
                         IN [source |-> websites[k], page |-> 0,
                             page_content |-> scraped[k].text]]
    /\ AfterLoop /\ websites # <<>> => Len(scraped) = Len(websites)
    /\ Identified /\ websites # <<>> =>
          \A url \in URLS :
              Cardinality({i \in Indices(chunks) : chunks[i].source = url}) =
                  IF all_docs = <<>> THEN 0 ELSE WindowsOf(url)

\* A run returns with chunks of a url that was scraped after another url failed.
C8_Witness ==
    /\ pc = "return" /\ get_outcome # "none"
    /\ \E k, j \in Indices(scraped) :
          /\ k < j /\ ScrapeFailed(k) /\ scraped[j].text # <<>>
          /\ \E i \in Indices(new_chunks) : new_chunks[i].source = websites[j]

\* The chunks of the batch whose sha256 is not in hashes, in the order of the batch.
AbsentFrom(hashes) == Pick(chunks, {i \in Indices(chunks) : chunks[i].sha256 \notin hashes})

ReadOk == get_outcome = "metadatas"

\* ---- C4 (Spec)
\* C4: when a run that reached add_to_chroma returns, the sha256 of every chunk of
\* its batch is the sha256 of some row of the store.
C4_BatchContentPersisted ==
    (pc = "return" /\ get_outcome # "none") =>
        \A i \in Indices(chunks) : chunks[i].sha256 \in StoredHashes(db)

\* ---- C5 (Spec)
\* C5: add_to_chroma leaves every persisted row as it was: its id stays and the
\* chunk stored under it is not replaced.
C5_NoRowOverwritten ==
    [][pc = "add_to_chroma" =>
          \A id \in DOMAIN db : id \in DOMAIN db' /\ db'[id] = db[id]]_vars

\* C5 as amended: add_to_chroma deletes no row; a row is replaced exactly when a
\* chunk passed to add_documents has its id, and then by such a chunk.
C5_RowsKeptOrReplaced ==
    [][pc = "add_to_chroma" =>
          \A id \in DOMAIN db :
              LET same == {i \in Indices(new_chunks') : new_chunks'[i].id = id}
              IN /\ id \in DOMAIN db'
                 /\ same = {} => db'[id] = db[id]
                 /\ same # {} => \E i \in same : db'[id] = new_chunks'[i]]_vars

\* add_to_chroma wrote chunks and a row that none of them names is still stored.
C5_Witness ==
    /\ pc = "return" /\ new_chunks # <<>>
    /\ \E id \in DOMAIN db : \A i \in Indices(new_chunks) : new_chunks[i].id # id

\* ---- C6 (Spec)
AllPersisted == \A i \in Indices(chunks) : chunks[i].sha256 \in StoredHashes(db)

\* C6: when the sha256 of every chunk of the batch is persisted, add_to_chroma
\* passes no chunk to add_documents (so embeds none) and leaves the store as it was.
C6_NoOpWhenAllPersisted ==
    [][(pc = "add_to_chroma" /\ AllPersisted) => (new_chunks' = <<>> /\ db' = db)]_vars

\* C6 as amended: the same, when db.get returned the metadatas.
C6_NoOpWhenAllRead ==
    [][(pc = "add_to_chroma" /\ AllPersisted /\ get_outcome' = "metadatas") =>
          (new_chunks' = <<>> /\ db' = db)]_vars

\* add_to_chroma read the metadatas and returned with a batch none of which was new.
C6_Witness ==
    pc = "return" /\ ReadOk /\ chunks # <<>> /\ new_chunks = <<>> /\ db # EmptyStore

\* ---- C9 (Spec)
\* new_chunks is the batch's chunks with a sha256 outside hashes, each one written
\* under its id (the last one written under an id is the row of that id).
HashDedup(hashes) ==
    /\ new_chunks' = AbsentFrom(hashes)
    /\ \A i \in Indices(new_chunks') :
          LET c == new_chunks'[i]
          IN /\ c.id \in DOMAIN db'
             /\ \/ db'[c.id] = c
                \/ \E j \in Indices(new_chunks') : j > i /\ new_chunks'[j].id = c.id

\* C9: the chunks passed to add_documents are the chunks of the batch whose sha256
\* is not persisted when the run starts, whatever their ids and however many of the
\* batch share a sha256, each under its own id.
C9_NewIffHashAbsent ==
    [][pc = "add_to_chroma" => HashDedup(StoredHashes(db))]_vars

\* C9 as amended: the same against existing_hashes, which is the persisted sha256
\* set when db.get returned the metadatas and is empty when it did not.
C9_NewIffHashNotRead ==
    [][pc = "add_to_chroma" =>
          HashDedup(IF get_outcome' = "metadatas" THEN StoredHashes(db) ELSE {})]_vars

\* After a read of the metadatas two chunks with one sha256 were both added and a
\* chunk whose id is stored nowhere was left out.
C9_Witness ==
    /\ pc = "return" /\ ReadOk
    /\ \E i, j \in Indices(new_chunks) : i # j /\ new_chunks[i].sha256 = new_chunks[j].sha256
    /\ \E i \in Indices(chunks) : chunks[i].id \notin DOMAIN db

\* ---- C1 (SpecRerun)
\* C1: a run over the documents the run before it ingested adds no chunk (stated
\* for the runs whose db.get returned the metadatas).
C1_SecondRunAddsNothing ==
    (pc = "return" /\ reingest /\ ReadOk) => new_chunks = <<>>

\* ---- C2 (SpecRerun)
\* The first run over an ingested document set plus one added document.
FirstRunWithAdded == added > 0 /\ ~reingest
NewDocFirst == Len(split_documents(SubSeq(all_docs, 1, added - 1))) + 1
NewDocLast == NewDocFirst + Len(all_docs[added].page_content) - 1

DistinctIds ==
    Identified => \A i, j \in Indices(chunks) : i # j => chunks[i].id # chunks[j].id
AddsNothing == pc = "return" => new_chunks = <<>>

\* C10: when the runs go on over documents that no longer change and whose ids are
\* distinct, from some run on every run adds nothing.
C10_Converges == <>[]DistinctIds => <>[]AddsNothing

\* C10 as amended: the same, when from some run on db.get returns the metadatas.
C10_ConvergesWhenRead ==
    (<>[]DistinctIds /\ <>[](get_outcome \in {"none", "metadatas"})) => <>[]AddsNothing

\* A run over documents ingested before read the metadatas and added nothing.
C10_Witness ==
    pc = "return" /\ reingest /\ ReadOk /\ chunks # <<>> /\ new_chunks = <<>>

====
